---- MODULE Spec2Model ----
(***************************************************************************)
(* Model of src/composables/useSvgPanZoom.ts: a Vue composable that turns  *)
(* two-finger touch sequences on an <svg> element into an affine           *)
(* transform of a wrapping <g> group.                                      *)
(*                                                                         *)
(* Numbers.  The code computes in IEEE-754 doubles.  Here a number is a    *)
(* pair <<n, d>>: d > 0 is the exact rational n/d in lowest terms, and     *)
(* d = 0 is a non-finite double: <<1,0>> = +Infinity, <<-1,0>> =           *)
(* -Infinity, <<0,0>> = NaN.  The operators follow the IEEE rules for the  *)
(* non-finite values; finite arithmetic is exact (rounding is not          *)
(* modelled).  Touch coordinates are integers, and the pairs of points     *)
(* whose distance is taken are at integer distances, so that Math.hypot    *)
(* is exact.                                                               *)
(***************************************************************************)
EXTENDS Integers, Sequences, FiniteSets, TLC

VARIABLES
    svgRef,       \* what the host bound to svgRef: "unset", "div" or "svg"
    isRotatable,  \* the hook's option
    phase,        \* component lifecycle: "setup", "mounted", "unmounted"
    groupRef,     \* TRUE once the <g> wrapper exists (groupRef.value)
    svgListener,  \* TRUE while onTouchStart is registered on the svg
    moveL,        \* document 'touchmove' listeners, in registration order
    endL,         \* document 'touchend' listeners, in registration order
    matrix,       \* matrix.value: <<>> (undefined) or <<a,b,c,d,e,f>>
    transform,    \* the group's transform attribute: <<>> (absent) or a matrix
    nTouches,     \* number of fingers currently on the screen
    lastEvent,    \* the last touch event: its type, and the two points a
                  \* two-finger move handler read from it
    events,       \* number of touch events so far
    moves,        \* number of touchmove events a two-finger handler handled
    degenerate,   \* TRUE once a two-finger gesture started on coincident points
    args,         \* inputs of the matrix functions (function-level specification)
    result        \* their results (function-level specification)

vars == <<svgRef, isRotatable, phase, groupRef, svgListener, moveL, endL,
          matrix, transform, nTouches, lastEvent, events, moves, degenerate,
          args, result>>

hookVars == <<svgRef, isRotatable, phase, groupRef, svgListener, moveL, endL,
              matrix, transform, nTouches, lastEvent, events, moves,
              degenerate>>

-----------------------------------------------------------------------------
(* Bounds *)

\* fingers on the screen at once
MaxTouches == 3

\* touch events explored
MaxEvents == 5

\* Touch coordinates (pageX, pageY).
Points == {<<0, 0>>, <<1, 0>>, <<0, 1>>, <<2, 0>>}

\* Where a third or later finger is.
FurtherPoints == {<<1, 0>>, <<0, 1>>}

\* Where the first two fingers of a touches list are: one at the origin and
\* the other to its right (near or far) or below it, or both on the origin.
Placements ==
    {<<<<0, 0>>, <<1, 0>>>>, <<<<0, 0>>, <<0, 1>>>>, <<<<0, 0>>, <<2, 0>>>>,
     <<<<0, 0>>, <<0, 0>>>>}

-----------------------------------------------------------------------------
(* Numbers *)

Abs(i) == IF i < 0 THEN -i ELSE i

Sgn(i) == IF i > 0 THEN 1 ELSE IF i < 0 THEN -1 ELSE 0

RECURSIVE GCD(_, _)
GCD(i, j) == IF j = 0 THEN i ELSE GCD(j, i % j)

\* the rational n/d, d > 0, in lowest terms
Q(n, d) == LET g == GCD(Abs(n), d) IN <<n \div g, d \div g>>

Num(i) == <<i, 1>>

NaN == <<0, 0>>

Zero == <<0, 1>>

One == <<1, 1>>

IsFinite(x) == x[2] # 0

Neg(x) == <<-x[1], x[2]>>

Add(x, y) ==
    IF x = NaN \/ y = NaN THEN NaN
    ELSE IF x[2] = 0 /\ y[2] = 0 THEN (IF x = y THEN x ELSE NaN)
    ELSE IF x[2] = 0 THEN x
    ELSE IF y[2] = 0 THEN y
    ELSE Q(x[1] * y[2] + y[1] * x[2], x[2] * y[2])

Sub(x, y) == Add(x, Neg(y))

Mul(x, y) ==
    IF x = NaN \/ y = NaN THEN NaN
    ELSE IF x[2] = 0 \/ y[2] = 0
         THEN <<Sgn(x[1]) * Sgn(y[1]), 0>>    \* Infinity * 0 = NaN
    ELSE Q(x[1] * y[1], x[2] * y[2])

\* x / y for y >= +0, the only division the code makes (a distance)
Div(x, y) ==
    IF x = NaN \/ y = NaN THEN NaN
    ELSE IF y[2] = 0 THEN (IF x[2] = 0 THEN NaN ELSE Zero)
    ELSE IF x[2] = 0 THEN x
    ELSE IF y[1] = 0 THEN <<Sgn(x[1]), 0>>    \* 0 / 0 = NaN, x / 0 = Infinity
    ELSE Q(x[1] * y[2], x[2] * y[1])

ISqrt(n) == CHOOSE r \in 0..n : r * r = n

\* Math.sqrt, on the squares of rationals
Sqrt(x) ==
    IF x = NaN \/ x[1] < 0 THEN NaN
    ELSE IF x[2] = 0 THEN x
    ELSE <<ISqrt(x[1]), ISqrt(x[2])>>

Hypot(x, y) == Sqrt(Add(Mul(x, x), Mul(y, y)))

\* Math.atan2(y, x).  The angle is represented by the primitive integer
\* vector pointing in its direction, which is one-to-one on (-180, 180]
\* degrees: <<1,0>> is 0, <<0,1>> is 90, <<-1,0>> is 180, <<0,-1>> is -90;
\* <<0,0>> is NaN.  atan2(0, 0) = 0.
Atan2(y, x) ==
    IF x = NaN \/ y = NaN THEN <<0, 0>>
    ELSE IF x[2] = 0 \/ y[2] = 0
         THEN <<IF x[2] = 0 THEN x[1] ELSE 0, IF y[2] = 0 THEN y[1] ELSE 0>>
    ELSE IF x[1] = 0 /\ y[1] = 0 THEN <<1, 0>>
    ELSE LET X == x[1] * y[2]
             Y == y[1] * x[2]
             g == GCD(Abs(X), Abs(Y))
         IN  <<X \div g, Y \div g>>

Deg0 == <<1, 0>>

Deg90 == <<0, 1>>

\* <<cos(t), sin(t)>> of the angle t = atan2(p.y, p.x) of an integer vector p
CosSin(p) ==
    IF p = <<0, 0>> THEN <<One, Zero>>
    ELSE LET h == Hypot(Num(p[1]), Num(p[2]))
         IN  <<Div(Num(p[1]), h), Div(Num(p[2]), h)>>

-----------------------------------------------------------------------------
(* Matrices: <<a, b, c, d, e, f>>, mapping (x, y) to                       *)
(* (a x + c y + e, b x + d y + f)                                          *)

DOMMatrix(a, b, c, d, e, f) == <<a, b, c, d, e, f>>

Identity == DOMMatrix(One, Zero, Zero, One, Zero, Zero)

\* m.multiply(o): the product m * o (o is applied first)
Multiply(m, o) ==
    DOMMatrix(Add(Mul(m[1], o[1]), Mul(m[3], o[2])),
              Add(Mul(m[2], o[1]), Mul(m[4], o[2])),
              Add(Mul(m[1], o[3]), Mul(m[3], o[4])),
              Add(Mul(m[2], o[3]), Mul(m[4], o[4])),
              Add(Add(Mul(m[1], o[5]), Mul(m[3], o[6])), m[5]),
              Add(Add(Mul(m[2], o[5]), Mul(m[4], o[6])), m[6]))

FiniteMatrix(m) == \A i \in 1..6 : IsFinite(m[i])

\* the image of the point <<x, y>> (numbers) under m
Apply(m, p) ==
    <<Add(Add(Mul(m[1], p[1]), Mul(m[3], p[2])), m[5]),
      Add(Add(Mul(m[2], p[1]), Mul(m[4], p[2])), m[6])>>

-----------------------------------------------------------------------------
(* Transform maths *)

\* touch?.pageX || 0: a missing touch reads as (0, 0)
getTouchCoords(touches, i) ==
    IF i <= Len(touches) THEN touches[i] ELSE <<0, 0>>

getDistance(pointOne, pointTwo) ==
    Hypot(Num(pointOne[1] - pointTwo[1]), Num(pointOne[2] - pointTwo[2]))

Half == <<1, 2>>

\* mutant: the quotient of the distances turned over
getZoomMatrixInverted(one, two, newOne, newTwo) ==
    LET d  == Div(getDistance(one, two), getDistance(newOne, newTwo))
        cx == Mul(Num(newOne[1] + newTwo[1]), Half)
        cy == Mul(Num(newOne[2] + newTwo[2]), Half)
        tx == Sub(cx, Mul(d, Mul(Num(one[1] + two[1]), Half)))
        ty == Sub(cy, Mul(d, Mul(Num(one[2] + two[2]), Half)))
    IN  DOMMatrix(d, Zero, Zero, d, tx, ty)

\* mutant: the translation taken from newOne instead of the new midpoint
getZoomMatrixFromNewOne(one, two, newOne, newTwo) ==
    LET d  == Div(getDistance(newOne, newTwo), getDistance(one, two))
        tx == Sub(Num(newOne[1]), Mul(d, Mul(Num(one[1] + two[1]), Half)))
        ty == Sub(Num(newOne[2]), Mul(d, Mul(Num(one[2] + two[2]), Half)))
    IN  DOMMatrix(d, Zero, Zero, d, tx, ty)

getZoomMatrix(one, two, newOne, newTwo) ==
    LET d  == Div(getDistance(newOne, newTwo), getDistance(one, two))
        cx == Mul(Num(newOne[1] + newTwo[1]), Half)
        cy == Mul(Num(newOne[2] + newTwo[2]), Half)
        tx == Sub(cx, Mul(d, Mul(Num(one[1] + two[1]), Half)))
        ty == Sub(cy, Mul(d, Mul(Num(one[2] + two[2]), Half)))
    IN  DOMMatrix(d, Zero, Zero, d, tx, ty)

\* mutant: the sine term of tx with the sign of ty's
getMatrixSignSlip(one, two, newOne, newTwo) ==
    LET d   == Div(getDistance(newOne, newTwo), getDistance(one, two))
        cx  == Mul(Num(newOne[1] + newTwo[1]), Half)
        cy  == Mul(Num(newOne[2] + newTwo[2]), Half)
        old == CosSin(<<two[1] - one[1], two[2] - one[2]>>)
        new == CosSin(<<newTwo[1] - newOne[1], newTwo[2] - newOne[2]>>)
        c   == Add(Mul(new[1], old[1]), Mul(new[2], old[2]))
        s   == Sub(Mul(new[2], old[1]), Mul(new[1], old[2]))
        mx  == Mul(Num(one[1] + two[1]), Half)
        my  == Mul(Num(one[2] + two[2]), Half)
        tx  == Sub(Sub(cx, Mul(Mul(d, mx), c)), Mul(Mul(d, my), s))
        ty  == Sub(Sub(cy, Mul(Mul(d, my), c)), Mul(Mul(d, mx), s))
    IN  DOMMatrix(Mul(d, c), Mul(d, s), Neg(Mul(d, s)), Mul(d, c), tx, ty)

\* mutant: the old midpoint moved without being scaled
getMatrixUnscaledShift(one, two, newOne, newTwo) ==
    LET d   == Div(getDistance(newOne, newTwo), getDistance(one, two))
        cx  == Mul(Num(newOne[1] + newTwo[1]), Half)
        cy  == Mul(Num(newOne[2] + newTwo[2]), Half)
        old == CosSin(<<two[1] - one[1], two[2] - one[2]>>)
        new == CosSin(<<newTwo[1] - newOne[1], newTwo[2] - newOne[2]>>)
        c   == Add(Mul(new[1], old[1]), Mul(new[2], old[2]))
        s   == Sub(Mul(new[2], old[1]), Mul(new[1], old[2]))
        mx  == Mul(Num(one[1] + two[1]), Half)
        my  == Mul(Num(one[2] + two[2]), Half)
        tx  == Add(Sub(cx, Mul(mx, c)), Mul(my, s))
        ty  == Sub(Sub(cy, Mul(my, c)), Mul(mx, s))
    IN  DOMMatrix(Mul(d, c), Mul(d, s), Neg(Mul(d, s)), Mul(d, c), tx, ty)

\* mutant: the cosine and sine of newAtan + atan
getMatrixAngleSum(one, two, newOne, newTwo) ==
    LET d   == Div(getDistance(newOne, newTwo), getDistance(one, two))
        cx  == Mul(Num(newOne[1] + newTwo[1]), Half)
        cy  == Mul(Num(newOne[2] + newTwo[2]), Half)
        old == CosSin(<<two[1] - one[1], two[2] - one[2]>>)
        new == CosSin(<<newTwo[1] - newOne[1], newTwo[2] - newOne[2]>>)
        c   == Sub(Mul(new[1], old[1]), Mul(new[2], old[2]))
        s   == Add(Mul(new[2], old[1]), Mul(new[1], old[2]))
        mx  == Mul(Num(one[1] + two[1]), Half)
        my  == Mul(Num(one[2] + two[2]), Half)
        tx  == Add(Sub(cx, Mul(Mul(d, mx), c)), Mul(Mul(d, my), s))
        ty  == Sub(Sub(cy, Mul(Mul(d, my), c)), Mul(Mul(d, mx), s))
    IN  DOMMatrix(Mul(d, c), Mul(d, s), Neg(Mul(d, s)), Mul(d, c), tx, ty)

getMatrix(one, two, newOne, newTwo) ==
    LET d   == Div(getDistance(newOne, newTwo), getDistance(one, two))
        cx  == Mul(Num(newOne[1] + newTwo[1]), Half)
        cy  == Mul(Num(newOne[2] + newTwo[2]), Half)
        \* cos and sin of newAtan - atan, by the angle-difference identities
        old == CosSin(<<two[1] - one[1], two[2] - one[2]>>)
        new == CosSin(<<newTwo[1] - newOne[1], newTwo[2] - newOne[2]>>)
        c   == Add(Mul(new[1], old[1]), Mul(new[2], old[2]))
        s   == Sub(Mul(new[2], old[1]), Mul(new[1], old[2]))
        mx  == Mul(Num(one[1] + two[1]), Half)
        my  == Mul(Num(one[2] + two[2]), Half)
        tx  == Add(Sub(cx, Mul(Mul(d, mx), c)), Mul(Mul(d, my), s))
        ty  == Sub(Sub(cy, Mul(Mul(d, my), c)), Mul(Mul(d, mx), s))
    IN  DOMMatrix(Mul(d, c), Mul(d, s), Neg(Mul(d, s)), Mul(d, c), tx, ty)

-----------------------------------------------------------------------------
(* Element helpers *)

\* mutant: the nodeName test left out
isSvgElementAnyNode(el) == el # "unset"

isSvgElement(el) == el # "unset" /\ el = "svg"

\* the matrix inverse (DOMMatrix.inverse) of an invertible 2D matrix
Inverse(m) ==
    LET det == Sub(Mul(m[1], m[4]), Mul(m[2], m[3]))
        ia  == Div(m[4], det)
        ib  == Neg(Div(m[2], det))
        ic  == Neg(Div(m[3], det))
        id  == Div(m[1], det)
    IN  DOMMatrix(ia, ib, ic, id,
                  Neg(Add(Mul(ia, m[5]), Mul(ic, m[6]))),
                  Neg(Add(Mul(ib, m[5]), Mul(id, m[6]))))

\* svg.getScreenCTM(): where the page lays the svg out (a scale by 2 and an
\* offset, as a viewBox and a page position give)
ParentCTM == DOMMatrix(Num(2), Zero, Zero, Num(2), Num(3), Num(4))

\* group.getScreenCTM(): the parent's CTM times the group's transform attribute
ChildCTM(t) == IF t = <<>> THEN ParentCTM ELSE Multiply(ParentCTM, t)

InverseParentCTM == Inverse(ParentCTM)

\* parent.getScreenCTM().inverse().multiply(el.getScreenCTM())
getCurrentMatrix(t) == Multiply(InverseParentCTM, ChildCTM(t))

\* el.setAttribute('transform', matrix.toString()): stringifying a DOMMatrix
\* with a non-finite element throws InvalidStateError, which leaves the
\* attribute as it was; a finite matrix is written and parsed back unchanged
updateMatrix(t, m) == IF FiniteMatrix(m) THEN m ELSE t

watchEffect(g, m, t) == IF g /\ m # <<>> THEN updateMatrix(t, m) ELSE t

\* the identity of a new closure: the least number no registered listener has
FreshId(ml, el) ==
    CHOOSE k \in 1..(Len(ml) + Len(el) + 1) :
        /\ \A i \in 1..Len(ml) : ml[i].id # k
        /\ \A i \in 1..Len(el) : el[i].id # k /\ el[i].move # k
        /\ \A j \in 1..(k - 1) :
               \/ \E i \in 1..Len(ml) : ml[i].id = j
               \/ \E i \in 1..Len(el) : el[i].id = j \/ el[i].move = j

removeEventListener(l, k) == SelectSeq(l, LAMBDA h : h.id # k)

\* setTouchMove: registers onTouchMove (the closure h) and a new onTouchEnd
\* that refers to it; returns the two listener lists
setTouchMove(ml, el, h) ==
    [move |-> Append(ml, h),
     end  |-> Append(el, [id |-> h.id, move |-> h.id])]

\* mutant: the touchmove listener is left registered
onTouchEndKeepsMove(ml, el, e) ==
    [move |-> ml,
     end  |-> removeEventListener(el, e.id)]

\* onTouchEnd of setTouchMove (the closure e): removes its onTouchMove and itself
onTouchEnd(ml, el, e) ==
    [move |-> removeEventListener(ml, e.move),
     end  |-> removeEventListener(el, e.id)]

-----------------------------------------------------------------------------
(* Hook *)

\* the onTouchMove closure onSingleTouch makes
SingleHandler(k) ==
    [id |-> k, kind |-> "single", touchOne |-> <<0, 0>>, touchTwo |-> <<0, 0>>,
     matrix |-> <<>>]

\* the onTouchMove closure onDoubleTouch makes, over its initialState
DoubleHandler(k, touches, t) ==
    [id |-> k, kind |-> "double",
     touchOne |-> getTouchCoords(touches, 1),
     touchTwo |-> getTouchCoords(touches, 2),
     matrix |-> getCurrentMatrix(t)]

onSingleTouch(ml, el) == setTouchMove(ml, el, SingleHandler(FreshId(ml, el)))

onDoubleTouch(ml, el, touches, t) ==
    setTouchMove(ml, el, DoubleHandler(FreshId(ml, el), touches, t))

\* mutant: a gesture started by two touches or more
onTouchStartTwoOrMore(ml, el, touches, t) ==
    IF Len(touches) = 1 THEN onSingleTouch(ml, el)
    ELSE IF Len(touches) >= 2 THEN onDoubleTouch(ml, el, touches, t)
    ELSE [move |-> ml, end |-> el]

\* onTouchStart: the listener lists after the handler ran
onTouchStart(ml, el, touches, t) ==
    IF Len(touches) = 1 THEN onSingleTouch(ml, el)
    ELSE IF Len(touches) = 2 THEN onDoubleTouch(ml, el, touches, t)
    ELSE [move |-> ml, end |-> el]

\* mutant: the switch the wrong way round
newMatrixSwitched(rot, one, two, newOne, newTwo) ==
    IF rot THEN getZoomMatrix(one, two, newOne, newTwo)
    ELSE getMatrix(one, two, newOne, newTwo)

\* the incremental matrix of a move, by the isRotatable switch
newMatrix(rot, one, two, newOne, newTwo) ==
    IF rot THEN getMatrix(one, two, newOne, newTwo)
    ELSE getZoomMatrix(one, two, newOne, newTwo)

\* mutant: a single-touch move resets the transform
onSingleTouchMoveResets(h, touches, m) == Identity

\* onSingleTouch's onTouchMove: matrix.value stays m
onSingleTouchMove(h, touches, m) == m

\* mutant: the move composes onto the transform of the previous move
onDoubleTouchMoveOntoCurrent(rot, h, touches, m) ==
    Multiply(newMatrix(rot, h.touchOne, h.touchTwo,
                       getTouchCoords(touches, 1), getTouchCoords(touches, 2)),
             IF m = <<>> THEN h.matrix ELSE m)

\* mutant: the incremental matrix alone, the base left out
onDoubleTouchMoveNoBase(rot, h, touches, m) ==
    newMatrix(rot, h.touchOne, h.touchTwo,
              getTouchCoords(touches, 1), getTouchCoords(touches, 2))

\* onDoubleTouch's onTouchMove: the new matrix.value (m is the old one)
onDoubleTouchMove(rot, h, touches, m) ==
    Multiply(newMatrix(rot, h.touchOne, h.touchTwo,
                       getTouchCoords(touches, 1), getTouchCoords(touches, 2)),
             h.matrix)

\* a touchmove event on the document: every registered listener, in order
RECURSIVE DispatchMove(_, _, _, _, _)
DispatchMove(rot, ml, i, touches, m) ==
    IF i > Len(ml) THEN m
    ELSE DispatchMove(rot, ml, i + 1, touches,
                      IF ml[i].kind = "double"
                      THEN onDoubleTouchMove(rot, ml[i], touches, m)
                      ELSE onSingleTouchMove(ml[i], touches, m))

\* a touchend event on the document: every listener of the list as it was
\* when the dispatch began, unless removed meanwhile
RECURSIVE DispatchEnd(_, _, _, _)
DispatchEnd(snapshot, i, ml, el) ==
    IF i > Len(snapshot) THEN [move |-> ml, end |-> el]
    ELSE IF \E j \in 1..Len(el) : el[j].id = snapshot[i].id
         THEN LET r == onTouchEnd(ml, el, snapshot[i])
              IN  DispatchEnd(snapshot, i + 1, r.move, r.end)
         ELSE DispatchEnd(snapshot, i + 1, ml, el)

HasDouble(ml) == \E i \in 1..Len(ml) : ml[i].kind = "double"

\* the exposed computed values
\* mutant: the angle read from c and a
angleOfColumn == IF matrix # <<>> THEN Atan2(matrix[3], matrix[1]) ELSE Deg0

angle == IF matrix # <<>> THEN Atan2(matrix[2], matrix[1]) ELSE Deg0

\* mutant: the scale of the identity when no matrix is set
scaleUnsetOne ==
    IF matrix # <<>>
    THEN Sqrt(Add(Mul(matrix[1], matrix[1]), Mul(matrix[3], matrix[3])))
    ELSE One

scale ==
    IF matrix # <<>>
    THEN Sqrt(Add(Mul(matrix[1], matrix[1]), Mul(matrix[3], matrix[3])))
    ELSE Zero

-----------------------------------------------------------------------------
(* Actions *)

Event(type, touches) == [type |-> type, touches |-> touches]

\* the touches list of an event with n fingers on the screen
TouchLists(n) ==
    IF n = 1 THEN {<<p>> : p \in Points}
    ELSE {<<pl[1], pl[2]>> \o rest : pl \in Placements,
                                    rest \in [1..(n - 2) -> FurtherPoints]}

\* some touches list of n fingers, where no handler reads the coordinates
SomeTouches(n) == CHOOSE t \in TouchLists(n) : TRUE

Init ==
    /\ svgRef \in {"unset", "div", "svg"}
    /\ isRotatable \in BOOLEAN
    /\ phase = "setup"
    /\ groupRef = FALSE
    /\ svgListener = FALSE
    /\ moveL = <<>>
    /\ endL = <<>>
    /\ matrix = <<>>
    /\ transform = <<>>
    /\ nTouches = 0
    /\ lastEvent = Event("none", <<>>)
    /\ events = 0
    /\ moves = 0
    /\ degenerate = FALSE
    /\ args = <<>>
    /\ result = <<>>

\* onMounted
Mount ==
    /\ phase = "setup"
    /\ phase' = "mounted"
    /\ groupRef' = (IF isSvgElement(svgRef) THEN TRUE ELSE groupRef)
    /\ svgListener' = (IF isSvgElement(svgRef) THEN TRUE ELSE svgListener)
    /\ transform' = watchEffect(groupRef', matrix, transform)
    /\ UNCHANGED <<svgRef, isRotatable, moveL, endL, matrix, nTouches,
                   lastEvent, events, moves, degenerate, args, result>>

\* onBeforeUnmount
Unmount ==
    /\ phase = "mounted"
    /\ phase' = "unmounted"
    /\ svgListener' = (IF isSvgElement(svgRef) THEN FALSE ELSE svgListener)
    /\ UNCHANGED <<svgRef, isRotatable, groupRef, moveL, endL, matrix,
                   transform, nTouches, lastEvent, events, moves, degenerate,
                   args, result>>

\* k more fingers touch the screen; the touchstart event reaches onTouchStart
\* when they land on the element svgRef names and the listener is registered.
\* onTouchStart reads the coordinates of a list of two touches only.
TouchStart(onEl, k) ==
    /\ events < MaxEvents
    /\ nTouches + k <= MaxTouches
    /\ onEl => svgListener
    /\ nTouches' = nTouches + k
    /\ events' = events + 1
    /\ lastEvent' = Event("touchstart", <<>>)
    /\ IF onEl
       THEN \E touches \in (IF nTouches + k = 2 THEN TouchLists(2)
                             ELSE {SomeTouches(nTouches + k)}) :
                /\ LET r == onTouchStart(moveL, endL, touches, transform)
                   IN  /\ moveL' = r.move
                       /\ endL' = r.end
                /\ degenerate' =
                       (degenerate \/ (Len(touches) = 2 /\ touches[1] = touches[2]))
       ELSE UNCHANGED <<moveL, endL, degenerate>>
    /\ UNCHANGED <<svgRef, isRotatable, phase, groupRef, svgListener, matrix,
                   transform, moves, args, result>>

\* a finger moves: the touchmove event bubbles to the document; the render
\* effect runs before the next event, as long as the component that owns it
\* is not unmounted.  Only a two-finger move handler reads the touches.
TouchMove ==
    /\ events < MaxEvents
    /\ nTouches >= 1
    /\ \E touches \in (IF HasDouble(moveL) THEN TouchLists(nTouches)
                         ELSE {SomeTouches(nTouches)}) :
           /\ matrix' = DispatchMove(isRotatable, moveL, 1, touches, matrix)
           /\ lastEvent' = Event("touchmove",
                                 IF HasDouble(moveL)
                                 THEN <<getTouchCoords(touches, 1),
                                        getTouchCoords(touches, 2)>>
                                 ELSE <<>>)
    /\ transform' = (IF phase = "unmounted" THEN transform
                     ELSE watchEffect(groupRef, matrix', transform))
    /\ events' = events + 1
    /\ moves' = (IF HasDouble(moveL) THEN moves + 1 ELSE moves)
    /\ UNCHANGED <<svgRef, isRotatable, phase, groupRef, svgListener, moveL,
                   endL, nTouches, degenerate, args, result>>

\* a finger is lifted: the touchend event bubbles to the document
TouchEnd ==
    /\ events < MaxEvents
    /\ nTouches >= 1
    /\ nTouches' = nTouches - 1
    /\ events' = events + 1
    /\ LET r == DispatchEnd(endL, 1, moveL, endL)
       IN  /\ moveL' = r.move
           /\ endL' = r.end
    /\ lastEvent' = Event("touchend", <<>>)
    /\ UNCHANGED <<svgRef, isRotatable, phase, groupRef, svgListener, matrix,
                   transform, moves, degenerate, args, result>>

\* the browser cancels k touches (touchcancel): the hook listens for no
\* such event
TouchCancel(k) ==
    /\ events < MaxEvents
    /\ k <= nTouches
    /\ nTouches' = nTouches - k
    /\ events' = events + 1
    /\ lastEvent' = Event("touchcancel", <<>>)
    /\ UNCHANGED <<svgRef, isRotatable, phase, groupRef, svgListener, moveL,
                   endL, matrix, transform, moves, degenerate, args, result>>

Next ==
    \/ Mount
    \/ Unmount
    \/ \E onEl \in BOOLEAN, k \in 1..2 : TouchStart(onEl, k)
    \/ TouchMove
    \/ TouchEnd
    \/ \E k \in 1..MaxTouches : TouchCancel(k)

Spec == Init /\ [][Next]_vars

-----------------------------------------------------------------------------
(* The touch streams in which the two points of a gesture never coincide:   *)
(* no gesture starts on coincident points, and no move that a two-finger    *)
(* handler handles has its first two touches on one point                   *)

NextDistinct ==
    \/ Mount
    \/ Unmount
    \/ \E onEl \in BOOLEAN, k \in 1..2 : TouchStart(onEl, k) /\ ~degenerate'
    \/ /\ TouchMove
       /\ HasDouble(moveL) => lastEvent'.touches[1] # lastEvent'.touches[2]
    \/ TouchEnd
    \/ \E k \in 1..MaxTouches : TouchCancel(k)

SpecDistinct == Init /\ [][NextDistinct]_vars

-----------------------------------------------------------------------------
(* The matrix functions on their own: every quadruple of points *)

\* the pairs of points at an integer distance
IsSquare(n) == \E r \in 0..n : r * r = n

PointPairs ==
    {pq \in Points \X Points :
        IsSquare((pq[1][1] - pq[2][1]) * (pq[1][1] - pq[2][1])
                 + (pq[1][2] - pq[2][2]) * (pq[1][2] - pq[2][2]))}

\* two fingers 10 apart on a line, spread to 20 apart with the first at rest
SpreadArgs == <<<<0, 0>>, <<10, 0>>, <<0, 0>>, <<20, 0>>>>

\* two fingers 5 apart on a slope, moved and stretched to 10 apart along it
StretchArgs == <<<<0, 0>>, <<3, 4>>, <<1, 0>>, <<7, 8>>>>

\* <<one, two, newOne, newTwo>>
MathArgs ==
    {<<a[1], a[2], b[1], b[2]>> : a \in PointPairs, b \in PointPairs}
        \cup {SpreadArgs, StretchArgs}

InitMath ==
    /\ svgRef = "svg"
    /\ isRotatable = FALSE
    /\ phase = "setup"
    /\ groupRef = FALSE
    /\ svgListener = FALSE
    /\ moveL = <<>>
    /\ endL = <<>>
    /\ matrix = <<>>
    /\ transform = <<>>
    /\ nTouches = 0
    /\ lastEvent = Event("none", <<>>)
    /\ events = 0
    /\ moves = 0
    /\ degenerate = FALSE
    /\ args \in MathArgs
    /\ result = <<>>

Compute ==
    /\ result = <<>>
    /\ result' = [zoom |-> getZoomMatrix(args[1], args[2], args[3], args[4]),
                  rot  |-> getMatrix(args[1], args[2], args[3], args[4])]
    /\ UNCHANGED <<hookVars, args>>

NextMath == Compute

SpecMath == InitMath /\ [][NextMath]_vars

-----------------------------------------------------------------------------
(* Properties *)

Doubles(ml) == {i \in 1..Len(ml) : ml[i].kind = "double"}

\* the two-finger move handler registered last: the gesture in progress
CurrentGesture(ml) ==
    ml[CHOOSE i \in Doubles(ml) : \A j \in Doubles(ml) : j <= i]

\* the matrix a move of the gesture h to the touches t computes
GestureMatrix(h, t) ==
    Multiply(newMatrix(isRotatable, h.touchOne, h.touchTwo,
                       getTouchCoords(t, 1), getTouchCoords(t, 2)),
             h.matrix)

\* C1: right after a touchend no touchmove and no touchend listener of
\* setTouchMove is left on the document.
C1_TouchEndReleases ==
    lastEvent.type = "touchend" => moveL = <<>> /\ endL = <<>>

\* a touchend that followed a handled two-finger move, one finger still down
C1_Witness ==
    /\ lastEvent.type = "touchend"
    /\ moves >= 1
    /\ nTouches = 1
    /\ moveL = <<>>

\* C2: at most one two-finger move handler is registered on the document at
\* any time.
C2_OneGesture == Cardinality(Doubles(moveL)) <= 1

\* C3: after a touchmove handled within a two-finger gesture, the current
\* transform is the incremental matrix of the gesture's start points and
\* this move's touch points, times the base matrix captured at gesture
\* start; whatever the transform was before the move.
C3_FromSnapshot ==
    (lastEvent.type = "touchmove" /\ HasDouble(moveL)) =>
        matrix = GestureMatrix(CurrentGesture(moveL), lastEvent.touches)

\* the second move of one gesture, to other points than its first
C3_Witness ==
    /\ lastEvent.type = "touchmove"
    /\ HasDouble(moveL)
    /\ moves = 2
    /\ Len(moveL) = 2
    /\ ~degenerate
    /\ matrix # CurrentGesture(moveL).matrix
    /\ CurrentGesture(moveL).matrix = Identity

\* C4: the current transform changes only in a touchmove that a two-finger
\* move handler handles.
C4_OnlyGestureMoves ==
    [][matrix' # matrix =>
          /\ lastEvent'.type = "touchmove"
          /\ HasDouble(moveL)
          /\ nTouches' = nTouches
          /\ phase' = phase]_vars

\* a transform is set, and a touchend, an unmount and a touchstart have left
\* it as it was
C4_Witness ==
    /\ matrix # <<>>
    /\ matrix # Identity
    /\ phase = "unmounted"
    /\ lastEvent.type = "touchstart"
    /\ moveL = <<>>

\* C5: as long as no gesture started on coincident points, every base
\* matrix is finite and the current transform is finite.
C5_Finite ==
    /\ \A i \in Doubles(moveL) : FiniteMatrix(moveL[i].matrix)
    /\ (~degenerate /\ matrix # <<>>) => FiniteMatrix(matrix)

\* two moves handled, the second to coincident points
C5_Witness ==
    /\ ~degenerate
    /\ moves = 2
    /\ lastEvent.type = "touchmove"
    /\ HasDouble(moveL)
    /\ lastEvent.touches[1] = lastEvent.touches[2]
    /\ matrix # <<>>

\* C6: a non-finite matrix is never stored as the current transform and
\* never applied to the group's transform attribute.
C6_Guarded ==
    /\ matrix # <<>> => FiniteMatrix(matrix)
    /\ transform # <<>> => FiniteMatrix(transform)

\* C7: when svgRef is not an svg element nothing is ever activated: no
\* group, no listener, no transform, angle and scale 0.
C7_Skipped ==
    svgRef # "svg" =>
        /\ groupRef = FALSE
        /\ svgListener = FALSE
        /\ moveL = <<>>
        /\ endL = <<>>
        /\ matrix = <<>>
        /\ transform = <<>>
        /\ moves = 0
        /\ angle = Deg0
        /\ scale = Zero

\* a div was bound, the component was mounted and unmounted, and two fingers
\* have touched the screen and moved
C7_Witness ==
    /\ svgRef = "div"
    /\ phase = "unmounted"
    /\ nTouches = 2
    /\ lastEvent.type = "touchmove"

\* C8: isRotatable alone selects the computation: without it the transform
\* keeps b = 0 and c = 0 and the angle 0 (gestures starting on distinct
\* points), and a handled move leaves the scale-only matrix times the base;
\* with it a handled move leaves the rotate+scale matrix times the base.
C8_Switch ==
    /\ (~isRotatable /\ ~degenerate /\ matrix # <<>>) =>
           /\ matrix[2] = Zero
           /\ matrix[3] = Zero
           /\ angle = Deg0
    /\ (lastEvent.type = "touchmove" /\ HasDouble(moveL)) =>
           LET h == CurrentGesture(moveL)
               t == lastEvent.touches
               n1 == getTouchCoords(t, 1)
               n2 == getTouchCoords(t, 2)
           IN  matrix =
                  IF isRotatable
                  THEN Multiply(getMatrix(h.touchOne, h.touchTwo, n1, n2), h.matrix)
                  ELSE Multiply(getZoomMatrix(h.touchOne, h.touchTwo, n1, n2),
                                h.matrix)

\* rotation off: a gesture from a horizontal to a vertical placement
C8_Witness ==
    /\ ~isRotatable
    /\ ~degenerate
    /\ lastEvent.type = "touchmove"
    /\ HasDouble(moveL)
    /\ CurrentGesture(moveL).touchTwo = <<1, 0>>
    /\ lastEvent.touches = <<<<0, 0>>, <<0, 1>>>>
    /\ matrix[1] = One

\* C9: angle and scale are 0 exactly while no matrix is set, which is until
\* a two-finger handler has handled a touchmove; afterwards they are
\* atan2(b, a) and sqrt(a^2 + c^2) of the current transform.
C9_Accessors ==
    /\ (moves = 0) <=> (matrix = <<>>)
    /\ matrix = <<>> => angle = Deg0 /\ scale = Zero
    /\ matrix # <<>> =>
           /\ angle = Atan2(matrix[2], matrix[1])
           /\ scale = Sqrt(Add(Mul(matrix[1], matrix[1]),
                               Mul(matrix[3], matrix[3])))

\* one finger and then a second have touched the svg, the two-finger
\* gesture has started, and still no matrix is set
C9_Witness ==
    /\ matrix = <<>>
    /\ HasDouble(moveL)
    /\ Len(moveL) = 2
    /\ lastEvent.type = "touchstart"

Midpoint(p, q) == <<Mul(Num(p[1] + q[1]), Half), Mul(Num(p[2] + q[2]), Half)>>

NumPoint(p) == <<Num(p[1]), Num(p[2])>>

\* m maps the midpoint of (one, two) onto the midpoint of (newOne, newTwo),
\* and the images of one and two are dist(newOne, newTwo) apart
MapsPair(m, one, two, newOne, newTwo) ==
    LET i1 == Apply(m, NumPoint(one))
        i2 == Apply(m, NumPoint(two))
    IN  /\ Apply(m, Midpoint(one, two)) = Midpoint(newOne, newTwo)
        /\ Hypot(Sub(i1[1], i2[1]), Sub(i1[2], i2[2]))
               = getDistance(newOne, newTwo)

\* C10: for start points at a distance > 0, the scale-only matrix and the
\* rotate+scale matrix both map the midpoint of the start pair onto the
\* midpoint of the new pair and the start pair onto points as far apart as
\* the new pair.
C10_MapsMidpoint ==
    (result # <<>> /\ args[1] # args[2]) =>
        /\ MapsPair(result.zoom, args[1], args[2], args[3], args[4])
        /\ MapsPair(result.rot, args[1], args[2], args[3], args[4])

\* a pair scaled by 2, turned and moved
C10_Witness ==
    /\ result # <<>>
    /\ args = <<<<0, 0>>, <<1, 0>>, <<2, 0>>, <<0, 0>>>>
    /\ result.zoom # result.rot

\* C11 as stated: for one=(0,0), two=(10,0), newOne=(0,0), newTwo=(20,0) the
\* scale-only matrix is [2,0,0,2,-5,0].
C11_AsStated ==
    (result # <<>> /\ args = SpreadArgs) =>
        result.zoom = DOMMatrix(Num(2), Zero, Zero, Num(2), Num(-5), Zero)

\* C11: for one=(0,0), two=(10,0), newOne=(0,0), newTwo=(20,0) the scale-only
\* matrix has d = 2 and tx = 10 - 2*5 = 0 (the new midpoint's x less d times
\* the old midpoint's x): it is [2,0,0,2,0,0].
C11_SpreadMatrix ==
    (result # <<>> /\ args = SpreadArgs) =>
        result.zoom = DOMMatrix(Num(2), Zero, Zero, Num(2), Zero, Zero)

\* the matrices of the spread have been computed, and the scale-only one
\* doubles
C11_Witness ==
    /\ result # <<>>
    /\ args = SpreadArgs
    /\ result.zoom[1] = Num(2)

\* C12: for the distinct start points of every registered gesture, the
\* scale-only and the rotate+scale matrix of these points onto themselves are
\* the identity; and after a touchmove whose two touch points are the
\* gesture's start points the current transform is the base matrix captured
\* at gesture start.
C12_SamePoints ==
    /\ \A i \in Doubles(moveL) :
           LET h == moveL[i]
           IN  h.touchOne # h.touchTwo =>
                   /\ getZoomMatrix(h.touchOne, h.touchTwo,
                                    h.touchOne, h.touchTwo) = Identity
                   /\ getMatrix(h.touchOne, h.touchTwo,
                                h.touchOne, h.touchTwo) = Identity
    /\ (/\ lastEvent.type = "touchmove"
        /\ HasDouble(moveL)
        /\ CurrentGesture(moveL).touchOne # CurrentGesture(moveL).touchTwo
        /\ lastEvent.touches = <<CurrentGesture(moveL).touchOne,
                                 CurrentGesture(moveL).touchTwo>>)
           => matrix = CurrentGesture(moveL).matrix

\* a second gesture, on a group the first gesture has transformed, has just
\* handled a move to its own start points, with rotation on
C12_Witness ==
    /\ lastEvent.type = "touchmove"
    /\ HasDouble(moveL)
    /\ isRotatable
    /\ CurrentGesture(moveL).touchOne # CurrentGesture(moveL).touchTwo
    /\ lastEvent.touches = <<CurrentGesture(moveL).touchOne,
                             CurrentGesture(moveL).touchTwo>>
    /\ CurrentGesture(moveL).touchTwo = <<0, 1>>
    /\ CurrentGesture(moveL).matrix # Identity
    /\ matrix = CurrentGesture(moveL).matrix

\* the direction from p to q, as atan2 gives it
Direction(p, q) == Atan2(Num(q[2] - p[2]), Num(q[1] - p[1]))

\* C13: for distinct start points and distinct new points with the new pair
\* pointing in the direction of the start pair, the rotate+scale matrix is
\* the scale-only matrix of the same inputs: linear part [d,0,0,d] and the
\* same translation.
C13_NoTurn ==
    (/\ result # <<>>
     /\ args[1] # args[2]
     /\ args[3] # args[4]
     /\ Direction(args[1], args[2]) = Direction(args[3], args[4]))
        => /\ result.rot = result.zoom
           /\ result.rot[1] = Div(getDistance(args[3], args[4]),
                                  getDistance(args[1], args[2]))
           /\ result.rot[2] = Zero
           /\ result.rot[3] = Zero
           /\ result.rot[4] = result.rot[1]

\* a pair on a slope, moved and stretched to twice its length along the slope
C13_Witness ==
    /\ result # <<>>
    /\ args = StretchArgs
    /\ Direction(args[1], args[2]) = Direction(args[3], args[4])
    /\ result.rot = DOMMatrix(Num(2), Zero, Zero, Num(2), Num(1), Zero)

\* C14: with rotation on and the identity as base, after a gesture that
\* started at (0,0), (1,0) has handled a move to (0,0), (0,1), the angle is 90
\* degrees, the scale is 1 and the linear part of the current transform is
\* [0,1,-1,0].
C14_QuarterTurn ==
    (/\ isRotatable
     /\ lastEvent.type = "touchmove"
     /\ HasDouble(moveL)
     /\ CurrentGesture(moveL).matrix = Identity
     /\ CurrentGesture(moveL).touchOne = <<0, 0>>
     /\ CurrentGesture(moveL).touchTwo = <<1, 0>>
     /\ lastEvent.touches = <<<<0, 0>>, <<0, 1>>>>)
        => /\ angle = Deg90
           /\ scale = One
           /\ <<matrix[1], matrix[2], matrix[3], matrix[4]>>
                  = <<Zero, One, Neg(One), Zero>>

\* the quarter turn has been handled as the first move of the first gesture
C14_Witness ==
    /\ isRotatable
    /\ lastEvent.type = "touchmove"
    /\ HasDouble(moveL)
    /\ moves = 1
    /\ CurrentGesture(moveL).matrix = Identity
    /\ CurrentGesture(moveL).touchOne = <<0, 0>>
    /\ CurrentGesture(moveL).touchTwo = <<1, 0>>
    /\ lastEvent.touches = <<<<0, 0>>, <<0, 1>>>>
    /\ matrix[2] = One

\* C15: a touchstart with three or more touches registers no listener, keeps
\* every registered listener and leaves the current transform and the
\* transform attribute as they are, and so would a touchstart without
\* touches; and a touchmove with three or more touches, handled within a
\* two-finger gesture, sets the current transform a touchmove with only its
\* first two touches would set.
C15_ExtraTouches ==
    [][/\ (lastEvent'.type = "touchstart" /\ nTouches' >= 3) =>
              /\ moveL' = moveL
              /\ endL' = endL
              /\ matrix' = matrix
              /\ transform' = transform
       /\ onTouchStart(moveL, endL, <<>>, transform)
              = [move |-> moveL, end |-> endL]
       /\ (lastEvent'.type = "touchmove" /\ HasDouble(moveL)
                                         /\ nTouches >= 3) =>
              matrix' = DispatchMove(isRotatable, moveL, 1,
                                     lastEvent'.touches, matrix)]_vars

\* a third finger touched the screen during a two-finger gesture, and a move
\* of the three has been handled by the one gesture there is
C15_Witness ==
    /\ lastEvent.type = "touchmove"
    /\ nTouches = 3
    /\ svgListener
    /\ Len(moveL) = 1
    /\ HasDouble(moveL)
    /\ moves = 1
    /\ events = 3
    /\ matrix # Identity

\* C16: the base matrix a two-finger gesture captures when it starts is the
\* current transform the gestures before it have left, or the identity if
\* none has set one; so a first move on unchanged points reproduces that
\* transform.
C16_Continuous ==
    [][(/\ lastEvent'.type = "touchstart"
        /\ Len(moveL') > Len(moveL)
        /\ moveL'[Len(moveL')].kind = "double")
           => moveL'[Len(moveL')].matrix =
                  (IF matrix = <<>> THEN Identity ELSE matrix)]_vars

\* C17: the document always holds as many touchmove listeners of
\* setTouchMove as touchend listeners of it, and never more than two of each.
C17_NoAccumulation ==
    /\ Len(moveL) = Len(endL)
    /\ Len(moveL) <= 2

\* C18: once the hook is unmounted no listener of it is registered, neither
\* the touchstart listener on the svg element nor a touchmove or touchend
\* listener on the document, and no step changes the current transform.
C18_Released ==
    [][phase' = "unmounted" =>
          /\ ~svgListener'
          /\ moveL' = <<>>
          /\ endL' = <<>>
          /\ (phase = "unmounted" => matrix' = matrix)]_vars

\* sqrt(a^2 + c^2) of a matrix
ScaleOf(m) == Sqrt(Add(Mul(m[1], m[1]), Mul(m[3], m[3])))

\* C19: in the touch streams in which the two points of a gesture never
\* coincide, whenever a matrix is set its scale is a finite number greater
\* than 0, so is the scale of every base a gesture has captured (1 for the
\* identity the first gesture starts from), and after a move handled within
\* a gesture the scale is the scale of the gesture's base times
\* dist(newOne, newTwo) / dist(one, two).
C19_Invertible ==
    /\ matrix # <<>> => (IsFinite(scale) /\ scale[1] > 0)
    /\ \A i \in Doubles(moveL) :
           IsFinite(ScaleOf(moveL[i].matrix)) /\ ScaleOf(moveL[i].matrix)[1] > 0
    /\ (lastEvent.type = "touchmove" /\ HasDouble(moveL)) =>
           LET h == CurrentGesture(moveL)
           IN  scale = Mul(ScaleOf(h.matrix),
                           Div(getDistance(lastEvent.touches[1],
                                           lastEvent.touches[2]),
                               getDistance(h.touchOne, h.touchTwo)))

\* a second gesture, on a group the first gesture has scaled, has handled a
\* move that scales again
C19_Witness ==
    /\ lastEvent.type = "touchmove"
    /\ HasDouble(moveL)
    /\ moves = 2
    /\ ScaleOf(CurrentGesture(moveL).matrix) = Num(2)
    /\ CurrentGesture(moveL).touchTwo = <<1, 0>>
    /\ lastEvent.touches = <<<<0, 0>>, <<2, 0>>>>
    /\ scale = Num(4)

====
